---- MODULE Spec2Model ----
(***************************************************************************)
(* The create-alias endpoint of ruma-api (src/src/lib.rs, mod tests::create) *)
(* and the MatrixError type, as a state machine of concurrent conversion   *)
(* calls.                                                                  *)
(*                                                                         *)
(* Strings are sequences of one-character strings, so that replace, split, *)
(* percent-decoding and URI parsing are computed character by character.   *)
(* JSON bytes are modelled one level above the byte stream: either bytes   *)
(* that are no JSON text at all ("raw") or the JSON value the bytes        *)
(* denote ("json").                                                        *)
(***************************************************************************)
EXTENDS Integers, Sequences, FiniteSets, TLC

VARIABLES calls, metadata

vars == <<calls, metadata>>

(* Number of conversion calls that may be in flight at the same time. *)
NumCalls == 2

(* Longest localpart of the room aliases that are drawn as inputs. *)
MaxLocalLen == 1

Calls == 1..NumCalls

---------------------------------------------------------------------------
(* Result<T, E> and a panicking call *)

Ok(v) == [tag |-> "Ok", val |-> v]

Err(e) == [tag |-> "Err", err |-> e]

Panic == [tag |-> "Panic"]

None == [tag |-> "None"]

---------------------------------------------------------------------------
(* Request::METADATA *)

METADATA ==
  [ description |-> "Add an alias to a room.",
    method |-> "PUT",
    name |-> "create_alias",
    path |-> <<"/","_","m","a","t","r","i","x","/","c","l","i","e","n","t","/","r","0","/","d","i","r","e","c","t","o","r","y","/","r","o","o","m","/",":","r","o","o","m","_","a","l","i","a","s">>,
    rate_limited |-> FALSE,
    requires_authentication |-> TRUE ]

(* the pattern given to str::replace in the encoder *)
Placeholder == <<":","r","o","o","m","_","a","l","i","a","s">>

---------------------------------------------------------------------------
(* str helpers *)

StartsWith(s, p) == Len(s) >= Len(p) /\ SubSeq(s, 1, Len(p)) = p

(* str::replace: every non-overlapping match of pat, left to right *)
RECURSIVE Replace(_, _, _)
Replace(s, pat, rep) ==
  IF s = <<>> THEN <<>>
  ELSE IF StartsWith(s, pat)
       THEN rep \o Replace(SubSeq(s, Len(pat) + 1, Len(s)), pat, rep)
       ELSE <<Head(s)>> \o Replace(Tail(s), pat, rep)

(* str::find(char): index of the first occurrence, 0 when there is none *)
RECURSIVE Find(_, _)
Find(s, c) ==
  IF s = <<>> THEN 0
  ELSE IF Head(s) = c THEN 1
  ELSE LET r == Find(Tail(s), c) IN IF r = 0 THEN 0 ELSE r + 1

(* str::split(char).collect(): the empty string gives one empty piece *)
RECURSIVE Split(_, _)
Split(s, c) ==
  LET k == Find(s, c) IN
  IF k = 0 THEN <<s>>
  ELSE <<SubSeq(s, 1, k - 1)>> \o Split(SubSeq(s, k + 1, Len(s)), c)

---------------------------------------------------------------------------
(* ruma_identifiers: RoomId and RoomAliasId *)

HostChars == {"h", "g"}

(* Display: sigil, localpart, ':', hostname *)
IdToString(sigil, id) == <<sigil>> \o id.localpart \o <<":">> \o id.host

RoomIdToString(id) == IdToString("!", id)

RoomAliasIdToString(id) == IdToString("#", id)

(* TryFrom<&str>: at least four characters, the sigil first, the first ':'
   separates the localpart from a non-empty valid hostname *)
ParseId(sigil, s) ==
  LET k == Find(s, ":") IN
  IF /\ Len(s) >= 4
     /\ Head(s) = sigil
     /\ k >= 2
     /\ k < Len(s)
     /\ \A n \in (k + 1)..Len(s) : s[n] \in HostChars
  THEN Ok([localpart |-> SubSeq(s, 2, k - 1), host |-> SubSeq(s, k + 1, Len(s))])
  ELSE Err("invalid identifier")

---------------------------------------------------------------------------
(* percent_encoding::percent_decode(..).decode_utf8_lossy() *)

HexDigits == {"0","1","2","3","4","5","6","7","8","9","A","B","C","D","E","F"}

HexVal(c) ==
  CASE c = "0" -> 0 [] c = "1" -> 1 [] c = "2" -> 2 [] c = "3" -> 3
    [] c = "4" -> 4 [] c = "5" -> 5 [] c = "6" -> 6 [] c = "7" -> 7
    [] c = "8" -> 8 [] c = "9" -> 9 [] c = "A" -> 10 [] c = "B" -> 11
    [] c = "C" -> 12 [] c = "D" -> 13 [] c = "E" -> 14 [] c = "F" -> 15

(* the character of a decoded byte; "?" stands for every byte outside the
   characters the inputs are built from *)
ByteChar(b) ==
  CASE b = 33 -> "!" [] b = 34 -> "\"" [] b = 35 -> "#" [] b = 37 -> "%"
    [] b = 47 -> "/" [] b = 58 -> ":" [] b = 103 -> "g" [] b = 104 -> "h"
    [] b = 120 -> "x" [] b = 121 -> "y" [] OTHER -> "?"

RECURSIVE PercentDecode(_)
PercentDecode(s) ==
  IF s = <<>> THEN <<>>
  ELSE IF /\ Head(s) = "%"
          /\ Len(s) >= 3
          /\ s[2] \in HexDigits
          /\ s[3] \in HexDigits
       THEN <<ByteChar(16 * HexVal(s[2]) + HexVal(s[3]))>> \o PercentDecode(SubSeq(s, 4, Len(s)))
       ELSE <<Head(s)>> \o PercentDecode(Tail(s))

---------------------------------------------------------------------------
(* JSON *)

JNull == [k |-> "null", s |-> <<>>, n |-> 0, m |-> {}]

JStr(s) == [k |-> "str", s |-> s, n |-> 0, m |-> {}]

JNum(n) == [k |-> "num", s |-> <<>>, n |-> n, m |-> {}]

(* an object: the set of its <<key, value>> members *)
JObj(m) == [k |-> "obj", s |-> <<>>, n |-> 0, m |-> m]

Has(m, key) == \E p \in m : p[1] = key

Get(m, key) == (CHOOSE p \in m : p[1] = key)[2]

(* bytes that are the JSON text of value j *)
JsonBytes(j) == [t |-> "json", raw |-> "", json |-> j]

(* bytes that are not JSON text: empty, truncated JSON, binary garbage *)
RawBytes(what) == [t |-> "raw", raw |-> what, json |-> JNull]

(* serde_json::from_str of a text given character by character, for a type
   that deserializes from a JSON string: the text has to be a string literal *)
JsonFromStrString(text) ==
  IF /\ Len(text) >= 2
     /\ text[1] = "\""
     /\ text[Len(text)] = "\""
     /\ \A n \in 2..(Len(text) - 1) : text[n] # "\""
  THEN Ok(SubSeq(text, 2, Len(text) - 1))
  ELSE Err("invalid JSON")

---------------------------------------------------------------------------
(* MatrixErrorKind: the variants and their serde names *)

MatrixErrorKind ==
  { "Forbidden", "UnknownToken", "MissingToken", "BadJson", "NotJson",
    "NotFound", "LimitExceeded", "Unknown", "Unrecognized", "Unauthorized",
    "UserInUse", "InvalidUsername", "RoomInUse", "InvalidRoomState", "ThreepidInUse",
    "ThreepidNotFound", "ThreepidAuthFailed", "ThreepidDenied", "ServerNotTrusted", "UnsupportedRoomVersion",
    "IncompatibleRoomVersion", "BadState", "GuestAccessForbidden", "CaptchaNeeded", "CaptchaInvalid",
    "MissingParam", "InvalidParam", "TooLarge", "Exclusive" }

(* #[serde(rename = ...)] of each variant *)
ErrCode(kind) ==
  CASE kind = "Forbidden" -> <<"M","_","F","O","R","B","I","D","D","E","N">>
    [] kind = "UnknownToken" -> <<"M","_","U","N","K","N","O","W","N","_","T","O","K","E","N">>
    [] kind = "MissingToken" -> <<"M","_","M","I","S","S","I","N","G","_","T","O","K","E","N">>
    [] kind = "BadJson" -> <<"M","_","B","A","D","_","J","S","O","N">>
    [] kind = "NotJson" -> <<"M","_","N","O","T","_","J","S","O","N">>
    [] kind = "NotFound" -> <<"M","_","N","O","T","_","F","O","U","N","D">>
    [] kind = "LimitExceeded" -> <<"M","_","L","I","M","I","T","_","E","X","C","E","E","D","E","D">>
    [] kind = "Unknown" -> <<"M","_","U","N","K","N","O","W","N">>
    [] kind = "Unrecognized" -> <<"M","_","U","N","R","E","C","O","G","N","I","Z","E","D">>
    [] kind = "Unauthorized" -> <<"M","_","U","N","A","U","T","H","O","R","I","Z","E","D">>
    [] kind = "UserInUse" -> <<"M","_","U","S","E","R","_","I","N","_","U","S","E">>
    [] kind = "InvalidUsername" -> <<"M","_","I","N","V","A","L","I","D","_","U","S","E","R","N","A","M","E">>
    [] kind = "RoomInUse" -> <<"M","_","R","O","O","M","_","I","N","_","U","S","E">>
    [] kind = "InvalidRoomState" -> <<"M","_","I","N","V","A","L","I","D","_","R","O","O","M","_","S","T","A","T","E">>
    [] kind = "ThreepidInUse" -> <<"M","_","T","H","R","E","E","P","I","D","_","I","N","_","U","S","E">>
    [] kind = "ThreepidNotFound" -> <<"M","_","T","H","R","E","E","P","I","D","_","N","O","T","_","F","O","U","N","D">>
    [] kind = "ThreepidAuthFailed" -> <<"M","_","T","H","R","E","E","P","I","D","_","A","U","T","H","_","F","A","I","L","E","D">>
    [] kind = "ThreepidDenied" -> <<"M","_","T","H","R","E","E","P","I","D","_","D","E","N","I","E","D">>
    [] kind = "ServerNotTrusted" -> <<"M","_","S","E","R","V","E","R","_","N","O","T","_","T","R","U","S","T","E","D">>
    [] kind = "UnsupportedRoomVersion" -> <<"M","_","U","N","S","U","P","P","O","R","T","E","D","_","R","O","O","M","_","V","E","R","S","I","O","N">>
    [] kind = "IncompatibleRoomVersion" -> <<"M","_","I","N","C","O","M","P","A","T","I","B","L","E","_","R","O","O","M","_","V","E","R","S","I","O","N">>
    [] kind = "BadState" -> <<"M","_","B","A","D","_","S","T","A","T","E">>
    [] kind = "GuestAccessForbidden" -> <<"M","_","G","U","E","S","T","_","A","C","C","E","S","S","_","F","O","R","B","I","D","D","E","N">>
    [] kind = "CaptchaNeeded" -> <<"M","_","C","A","P","T","C","H","A","_","N","E","E","D","E","D">>
    [] kind = "CaptchaInvalid" -> <<"M","_","C","A","P","T","C","H","A","_","I","N","V","A","L","I","D">>
    [] kind = "MissingParam" -> <<"M","_","M","I","S","S","I","N","G","_","P","A","R","A","M">>
    [] kind = "InvalidParam" -> <<"M","_","I","N","V","A","L","I","D","_","P","A","R","A","M">>
    [] kind = "TooLarge" -> <<"M","_","T","O","O","_","L","A","R","G","E">>
    [] kind = "Exclusive" -> <<"M","_","E","X","C","L","U","S","I","V","E">>

KnownErrCodes == {ErrCode(kind) : kind \in MatrixErrorKind}

(* Deserialize of the internally tagged enum: the tag has to be the name of a
   variant, any other tag is serde's "unknown variant" error *)
MatrixErrorKindFromTag(code) ==
  IF code \in KnownErrCodes
  THEN Ok(CHOOSE kind \in MatrixErrorKind : ErrCode(kind) = code)
  ELSE Err("unknown variant")

(* StatusCode::default(), what #[serde(skip)] leaves in status_code *)
DefaultStatusCode == 200

(* Serialize of MatrixError: kind flattened into the object as errcode,
   status_code skipped, message renamed to error *)
SerializeMatrixError(error) ==
  JsonBytes(JObj({<<"errcode", JStr(ErrCode(error.kind))>>, <<"error", JStr(error.message)>>}))

(* DeserializeMatrixError without #[serde(rename = "error")] on message *)
DeserializeMatrixErrorNoRename(bytes) ==
  IF bytes.t # "json" THEN Err("not JSON")
  ELSE IF bytes.json.k # "obj" THEN Err("invalid type")
  ELSE LET m == bytes.json.m IN
    IF ~Has(m, "message") THEN Err("missing field message")
    ELSE IF Get(m, "message").k # "str" THEN Err("invalid type")
    ELSE IF ~Has(m, "errcode") THEN Err("missing field errcode")
    ELSE IF Get(m, "errcode").k # "str" THEN Err("invalid type")
    ELSE LET kind == MatrixErrorKindFromTag(Get(m, "errcode").s) IN
      IF kind.tag = "Err" THEN kind
      ELSE Ok([kind |-> kind.val, status_code |-> DefaultStatusCode, message |-> Get(m, "message").s])

(* Deserialize of MatrixError, as serde_json::from_slice applies it *)
DeserializeMatrixError(bytes) ==
  IF bytes.t # "json" THEN Err("not JSON")
  ELSE IF bytes.json.k # "obj" THEN Err("invalid type")
  ELSE LET m == bytes.json.m IN
    IF ~Has(m, "error") THEN Err("missing field error")
    ELSE IF Get(m, "error").k # "str" THEN Err("invalid type")
    ELSE IF ~Has(m, "errcode") THEN Err("missing field errcode")
    ELSE IF Get(m, "errcode").k # "str" THEN Err("invalid type")
    ELSE LET kind == MatrixErrorKindFromTag(Get(m, "errcode").s) IN
      IF kind.tag = "Err" THEN kind
      ELSE Ok([kind |-> kind.val, status_code |-> DefaultStatusCode, message |-> Get(m, "error").s])

ContentTypeJson == {<<"content-type", "application/json">>}

(* MatrixErrorIntoResponse without .status(error.status_code): the
   builder's default status *)
MatrixErrorIntoResponseDefaultStatus(error) ==
  [status |-> DefaultStatusCode, headers |-> ContentTypeJson, body |-> SerializeMatrixError(error)]

(* From<MatrixError> for http::Response<Vec<u8>> *)
MatrixErrorIntoResponse(error) ==
  [status |-> error.status_code, headers |-> ContentTypeJson, body |-> SerializeMatrixError(error)]

---------------------------------------------------------------------------
(* http::Uri, as the request builder parses the path it is given *)

(* characters http does not accept in a path *)
InvalidUriChars == {"\"", " "}

(* Uri::from_str of an origin-form string: the text from the first '#' on is
   a fragment and is dropped; an invalid character before it is an error *)
UriFromStr(s) ==
  LET k == Find(s, "#")
      kept == IF k = 0 THEN s ELSE SubSeq(s, 1, k - 1)
  IN IF \E n \in 1..Len(kept) : kept[n] \in InvalidUriChars
     THEN Err("invalid uri character")
     ELSE Ok(kept)

---------------------------------------------------------------------------
(* error.rs (not part of the sources at hand) *)

(* RequestDeserializationError::new(err, request).into(): a
   FromHttpRequestError of the deserialization kind that keeps the request *)
RequestDeserializationError(http_request) ==
  [kind |-> "Deserialization", http_request |-> http_request]

(* ServerError::new(http_response): the raw status and body, and the
   structured error when the body decodes as one, with the wire status *)
ServerErrorNew(http_response) ==
  LET parsed == DeserializeMatrixError(http_response.body) IN
  [ status |-> http_response.status,
    body |-> http_response.body,
    cause |-> IF parsed.tag = "Ok"
              THEN [parsed.val EXCEPT !.status_code = http_response.status]
              ELSE None ]

(* FromHttpResponseError::Http(..) *)
FromHttpResponseErrorHttp(server_error) == [kind |-> "Http", error |-> server_error]

---------------------------------------------------------------------------
(* TryFrom<Request> for http::Request<Vec<u8>> *)

(* metadata.path.to_string().replace(":room_alias", &request.room_alias.to_string()) *)
EncodeRequestPath(meta, request) ==
  Replace(meta.path, Placeholder, RoomAliasIdToString(request.room_alias))

(* serde_json::to_vec(&RequestBody { room_id }) *)
SerializeRequestBody(request_body) ==
  JsonBytes(JObj({<<"room_id", JStr(RoomIdToString(request_body.room_id))>>}))

(* http::Request::builder().method(..).uri(path).body(..).expect(..) *)
EncodeRequestBuild(meta, path, request) ==
  LET uri == UriFromStr(path) IN
  IF uri.tag = "Err" THEN Panic
  ELSE Ok([ method |-> meta.method,
            path |-> uri.val,
            body |-> SerializeRequestBody([room_id |-> request.room_id]) ])

EncodeRequest(request) ==
  EncodeRequestBuild(METADATA, EncodeRequestPath(METADATA, request), request)

---------------------------------------------------------------------------
(* TryFrom<http::Request<Vec<u8>>> for Request *)

(* DeserializeRequestBody with room_id taken as a plain string, without the
   validation of the identifier *)
DeserializeRequestBodyUnvalidated(bytes) ==
  IF bytes.t # "json" THEN Err("not JSON")
  ELSE IF bytes.json.k # "obj" THEN Err("invalid type")
  ELSE LET m == bytes.json.m IN
    IF ~Has(m, "room_id") THEN Err("missing field room_id")
    ELSE IF Get(m, "room_id").k # "str" THEN Err("invalid type")
    ELSE Ok([room_id |-> [localpart |-> Get(m, "room_id").s, host |-> <<>>]])

(* serde_json::from_slice::<RequestBody>(request.body()) *)
DeserializeRequestBody(bytes) ==
  IF bytes.t # "json" THEN Err("not JSON")
  ELSE IF bytes.json.k # "obj" THEN Err("invalid type")
  ELSE LET m == bytes.json.m IN
    IF ~Has(m, "room_id") THEN Err("missing field room_id")
    ELSE IF Get(m, "room_id").k # "str" THEN Err("invalid type")
    ELSE LET id == ParseId("!", Get(m, "room_id").s) IN
      IF id.tag = "Err" THEN id ELSE Ok([room_id |-> id.val])

(* request.uri().path()[1..].split('/').collect(): slicing the empty path
   of an authority-form URI from index 1 panics *)
PathSegments(path) ==
  IF Len(path) < 1 THEN Panic ELSE Ok(Split(SubSeq(path, 2, Len(path)), "/"))

(* path_segments.get(5).unwrap(), percent_decode, serde_json::from_str *)
DecodeRoomAlias(path_segments) ==
  IF Len(path_segments) < 6 THEN Panic
  ELSE LET segment == path_segments[6]
           decoded == PercentDecode(segment)
           text == JsonFromStrString(decoded)
       IN IF text.tag = "Err" THEN text ELSE ParseId("#", text.val)

DecodeRequest(http_request) ==
  LET request_body == DeserializeRequestBody(http_request.body) IN
  IF request_body.tag = "Err" THEN Err(RequestDeserializationError(http_request))
  ELSE LET path_segments == PathSegments(http_request.path) IN
    IF path_segments.tag = "Panic" THEN Panic
    ELSE LET id == DecodeRoomAlias(path_segments.val) IN
      IF id.tag = "Panic" THEN Panic
      ELSE IF id.tag = "Err" THEN Err(RequestDeserializationError(http_request))
      ELSE Ok([room_id |-> request_body.val.room_id, room_alias |-> id.val])

---------------------------------------------------------------------------
(* Response *)

(* the unit struct Response *)
Response == [type |-> "Response"]

(* DecodeResponse with the comparison status <= 400 *)
DecodeResponseOffByOne(http_response) ==
  IF http_response.status <= 400
  THEN Ok(Response)
  ELSE Err(FromHttpResponseErrorHttp(ServerErrorNew(http_response)))

(* TryFrom<http::Response<Vec<u8>>> for Response *)
DecodeResponse(http_response) ==
  IF http_response.status < 400
  THEN Ok(Response)
  ELSE Err(FromHttpResponseErrorHttp(ServerErrorNew(http_response)))

(* TryFrom<Response> for http::Response<Vec<u8>>: the builder's status is
   its default, 200 OK *)
EncodeResponse(response) ==
  Ok([status |-> 200, headers |-> ContentTypeJson, body |-> JsonBytes(JObj({}))])

---------------------------------------------------------------------------
(* Inputs *)

LocalAlphabet == {"x", "y"}

LocalParts == UNION {[1..n -> LocalAlphabet] : n \in 1..MaxLocalLen}

Hosts == {<<"h">>}

RoomAliasIds == [localpart : LocalParts, host : Hosts]

RoomIds == [localpart : {<<"x">>, <<"y">>}, host : Hosts]

(* the typed requests *)
Requests == [room_id : RoomIds, room_alias : RoomAliasIds]

(* percent-encoding of a path segment, as the specification of the encoder
   asks for it: every character that is not a letter becomes %XX *)
RECURSIVE PercentEncode(_)
PercentEncode(s) ==
  IF s = <<>> THEN <<>>
  ELSE (CASE Head(s) = "!" -> <<"%","2","1">>
          [] Head(s) = "\"" -> <<"%","2","2">>
          [] Head(s) = "#" -> <<"%","2","3">>
          [] Head(s) = "%" -> <<"%","2","5">>
          [] Head(s) = "/" -> <<"%","2","F">>
          [] Head(s) = ":" -> <<"%","3","A">>
          [] OTHER -> <<Head(s)>>) \o PercentEncode(Tail(s))

(* METADATA.path up to the placeholder *)
PathPrefix == SubSeq(METADATA.path, 1, Len(METADATA.path) - Len(Placeholder))

Quoted(s) == <<"\"">> \o s \o <<"\"">>

(* the percent-encoded plain string form of each alias in the placeholder *)
PlainAliasPaths == {PathPrefix \o PercentEncode(RoomAliasIdToString(a)) : a \in RoomAliasIds}

(* the percent-encoded JSON string literal of each alias in the placeholder *)
QuotedAliasPaths == {PathPrefix \o PercentEncode(Quoted(RoomAliasIdToString(a))) : a \in RoomAliasIds}

(* paths without a sixth segment: the empty path of an authority-form URI,
   the root, and the metadata path cut before the placeholder segment *)
ShortPaths == {<<>>, <<"/">>, SubSeq(PathPrefix, 1, Len(PathPrefix) - 1)}

(* paths whose sixth segment is no room alias *)
BadAliasPaths ==
  { PathPrefix,
    PathPrefix \o <<"x">>,
    PathPrefix \o <<"%","2">>,
    PathPrefix \o PercentEncode(Quoted(<<"x">>)) }

RequestPaths == PlainAliasPaths \cup QuotedAliasPaths \cup ShortPaths \cup BadAliasPaths

WellFormedBodies == {SerializeRequestBody([room_id |-> r]) : r \in RoomIds}

(* empty bytes, truncated JSON, binary garbage, and JSON of the wrong shape *)
MalformedBodies ==
  { RawBytes("empty"),
    RawBytes("truncated"),
    RawBytes("garbage"),
    JsonBytes(JObj({})),
    JsonBytes(JObj({<<"room_id", JNum(1)>>})),
    JsonBytes(JObj({<<"room_id", JStr(<<"x">>)>>})),
    JsonBytes(JStr(<<"!","x",":","h">>)) }

HttpRequests ==
  [method : {"PUT"}, path : RequestPaths, body : WellFormedBodies \cup MalformedBodies]

Statuses == {200, 399, 400, 403, 500}

Messages == {<<"n","o">>, <<>>}

FutureErrCode == <<"M","_","S","O","M","E","_","F","U","T","U","R","E","_","C","O","D","E">>

ErrorBody(code, message) == JsonBytes(JObj({<<"errcode", JStr(code)>>, <<"error", JStr(message)>>}))

(* bodies of the structured error shape, with known and unknown codes *)
StructuredErrorBodies ==
  {ErrorBody(c, m) : c \in KnownErrCodes \cup {FutureErrCode}, m \in Messages}

(* bodies that are not of the structured error shape *)
UnstructuredBodies ==
  { RawBytes("empty"),
    RawBytes("garbage"),
    JsonBytes(JObj({})),
    JsonBytes(JObj({<<"errcode", JStr(ErrCode("Forbidden"))>>})),
    JsonBytes(JObj({<<"errcode", JNum(1)>>, <<"error", JStr(<<"n","o">>)>>})) }

ResponseBodies ==
  { ErrorBody(ErrCode("Forbidden"), <<"n","o">>),
    ErrorBody(ErrCode("Unrecognized"), <<"n","o">>),
    ErrorBody(FutureErrCode, <<"n","o">>) } \cup UnstructuredBodies

HttpResponses == [status : Statuses, headers : {ContentTypeJson, {}}, body : ResponseBodies]

MatrixErrors == [kind : MatrixErrorKind, status_code : {200, 403, 429}, message : Messages]

Invocations ==
  [op : {"encode_request"}, input : Requests]
    \cup [op : {"decode_request"}, input : HttpRequests]
    \cup [op : {"encode_response"}, input : {Response}]
    \cup [op : {"decode_response"}, input : HttpResponses]
    \cup [op : {"error_response"}, input : MatrixErrors]
    \cup [op : {"decode_error"}, input : StructuredErrorBodies \cup UnstructuredBodies]

(* the aliases of the runs with calls in flight together *)
SomeAliases == [localpart : {<<"x">>, <<"y">>}, host : Hosts]

(* a few inputs of every operation, for the runs with calls in flight
   together: calls that succeed, that fail and that panic *)
SomeInvocations ==
  [op : {"encode_request"},
   input : [room_id : {[localpart |-> <<"x">>, host |-> <<"h">>]}, room_alias : SomeAliases]]
    \cup [op : {"decode_request"},
          input : [method : {"PUT"},
                   path : {PathPrefix \o PercentEncode(Quoted(RoomAliasIdToString(a))) : a \in SomeAliases}
                            \cup {PathPrefix \o <<"%","2","3","x","%","3","A","h">>, <<"/">>},
                   body : {SerializeRequestBody([room_id |-> [localpart |-> <<"x">>, host |-> <<"h">>]]),
                           RawBytes("garbage")}]]
    \cup [op : {"encode_response"}, input : {Response}]
    \cup [op : {"decode_response"},
          input : [status : {200, 403}, headers : {ContentTypeJson},
                   body : {ErrorBody(ErrCode("Forbidden"), <<"n","o">>)}]]
    \cup [op : {"error_response"},
          input : [kind : {"Forbidden"}, status_code : {403}, message : {<<"n","o">>}]]
    \cup [op : {"decode_error"},
          input : {ErrorBody(ErrCode("Forbidden"), <<"n","o">>), ErrorBody(FutureErrCode, <<"n","o">>)}]

---------------------------------------------------------------------------
(* The calls *)

Idle == [op |-> "none", pc |-> "idle", input |-> None, local |-> None, result |-> None]

FirstPc(op) ==
  CASE op = "encode_request" -> "path"
    [] op = "decode_request" -> "body"
    [] OTHER -> "run"

Started(op, input) ==
  [op |-> op, pc |-> FirstPc(op), input |-> input, local |-> None, result |-> None]

Finished(call, result) == [call EXCEPT !.pc = "done", !.result = result]

At(i, op, pc) == calls[i].op = op /\ calls[i].pc = pc

Init ==
  /\ calls = [i \in Calls |-> Idle]
  /\ metadata = METADATA

(* a caller invokes a conversion with an owned input value *)
StartCall(i, invocations) ==
  /\ calls[i].pc = "idle"
  /\ \E inv \in invocations :
       calls' = [calls EXCEPT ![i] = Started(inv.op, inv.input)]
  /\ UNCHANGED metadata

(* a caller invokes a conversion while no other call is in flight *)
StartAlone(i) ==
  /\ \A j \in Calls : calls[j].pc = "idle"
  /\ StartCall(i, Invocations)

(* a caller invokes a conversion, whatever the other calls do *)
StartAmongOthers(i) == StartCall(i, SomeInvocations)

(* try_from(Request): let path = ... *)
EncodeRequestPathStep(i) ==
  /\ At(i, "encode_request", "path")
  /\ calls' = [calls EXCEPT ![i].local = EncodeRequestPath(metadata, calls[i].input),
                            ![i].pc = "build"]
  /\ UNCHANGED metadata

(* try_from(Request): the builder, the body and the result *)
EncodeRequestBuildStep(i) ==
  /\ At(i, "encode_request", "build")
  /\ calls' = [calls EXCEPT ![i] =
       Finished(calls[i], EncodeRequestBuild(metadata, calls[i].local, calls[i].input))]
  /\ UNCHANGED metadata

(* try_from(http::Request): let request_body = match from_slice(..) *)
DecodeRequestBodyStep(i) ==
  /\ At(i, "decode_request", "body")
  /\ LET request_body == DeserializeRequestBody(calls[i].input.body) IN
     calls' = [calls EXCEPT ![i] =
       IF request_body.tag = "Err"
       THEN Finished(calls[i], Err(RequestDeserializationError(calls[i].input)))
       ELSE [calls[i] EXCEPT !.pc = "segments",
                             !.local = [request_body |-> request_body.val]]]
  /\ UNCHANGED metadata

(* try_from(http::Request): let path_segments = ... *)
DecodeRequestSegmentsStep(i) ==
  /\ At(i, "decode_request", "segments")
  /\ LET path_segments == PathSegments(calls[i].input.path) IN
     calls' = [calls EXCEPT ![i] =
       IF path_segments.tag = "Panic"
       THEN Finished(calls[i], Panic)
       ELSE [calls[i] EXCEPT !.pc = "alias",
                             !.local = [request_body |-> calls[i].local.request_body,
                                        path_segments |-> path_segments.val]]]
  /\ UNCHANGED metadata

(* DecodeRequestAliasStep with path_segments kept in one place shared by all
   calls: the segments read are those of the first call that has split its
   path *)
DecodeRequestAliasStepShared(i) ==
  /\ At(i, "decode_request", "alias")
  /\ LET first == CHOOSE j \in Calls :
                    /\ At(j, "decode_request", "alias")
                    /\ \A h \in Calls : At(h, "decode_request", "alias") => j <= h
         id == DecodeRoomAlias(calls[first].local.path_segments)
     IN calls' = [calls EXCEPT ![i] =
       Finished(calls[i],
         IF id.tag = "Panic" THEN Panic
         ELSE IF id.tag = "Err" THEN Err(RequestDeserializationError(calls[i].input))
         ELSE Ok([room_id |-> calls[i].local.request_body.room_id, room_alias |-> id.val]))]
  /\ UNCHANGED metadata

(* try_from(http::Request): Ok(Request { room_id, room_alias: { .. } }) *)
DecodeRequestAliasStep(i) ==
  /\ At(i, "decode_request", "alias")
  /\ LET id == DecodeRoomAlias(calls[i].local.path_segments) IN
     calls' = [calls EXCEPT ![i] =
       Finished(calls[i],
         IF id.tag = "Panic" THEN Panic
         ELSE IF id.tag = "Err" THEN Err(RequestDeserializationError(calls[i].input))
         ELSE Ok([room_id |-> calls[i].local.request_body.room_id, room_alias |-> id.val]))]
  /\ UNCHANGED metadata

EncodeResponseStep(i) ==
  /\ At(i, "encode_response", "run")
  /\ calls' = [calls EXCEPT ![i] = Finished(calls[i], EncodeResponse(calls[i].input))]
  /\ UNCHANGED metadata

DecodeResponseStep(i) ==
  /\ At(i, "decode_response", "run")
  /\ calls' = [calls EXCEPT ![i] = Finished(calls[i], DecodeResponse(calls[i].input))]
  /\ UNCHANGED metadata

(* From<MatrixError>::from: it has no error case *)
MatrixErrorIntoResponseStep(i) ==
  /\ At(i, "error_response", "run")
  /\ calls' = [calls EXCEPT ![i] = Finished(calls[i], Ok(MatrixErrorIntoResponse(calls[i].input)))]
  /\ UNCHANGED metadata

(* serde_json::from_slice::<MatrixError> *)
DeserializeMatrixErrorStep(i) ==
  /\ At(i, "decode_error", "run")
  /\ calls' = [calls EXCEPT ![i] = Finished(calls[i], DeserializeMatrixError(calls[i].input))]
  /\ UNCHANGED metadata

(* the operation that decodes what op encodes *)
DecoderOf(op) == IF op = "encode_request" THEN "decode_request" ELSE "decode_response"

(* the wire message a call produced is moved to the other side, which
   decodes it *)
Deliver(i, j) ==
  /\ i # j
  /\ calls[i].pc = "done"
  /\ calls[i].op \in {"encode_request", "encode_response", "error_response"}
  /\ calls[i].result.tag = "Ok"
  /\ calls[j].pc = "idle"
  /\ calls' = [calls EXCEPT ![i] = Idle,
                            ![j] = Started(DecoderOf(calls[i].op), calls[i].result.val)]
  /\ UNCHANGED metadata

(* the caller takes the result; a panicked call has unwound *)
Return(i) ==
  /\ calls[i].pc = "done"
  /\ calls' = [calls EXCEPT ![i] = Idle]
  /\ UNCHANGED metadata

Step(i) ==
  \/ EncodeRequestPathStep(i)
  \/ EncodeRequestBuildStep(i)
  \/ DecodeRequestBodyStep(i)
  \/ DecodeRequestSegmentsStep(i)
  \/ DecodeRequestAliasStep(i)
  \/ EncodeResponseStep(i)
  \/ DecodeResponseStep(i)
  \/ MatrixErrorIntoResponseStep(i)
  \/ DeserializeMatrixErrorStep(i)
  \/ Return(i)
  \/ \E j \in Calls : Deliver(i, j)

Next == \E i \in Calls : StartAlone(i) \/ Step(i)

Spec == Init /\ [][Next]_vars

NextConcurrent == \E i \in Calls : StartAmongOthers(i) \/ Step(i)

SpecConcurrent == Init /\ [][NextConcurrent]_vars

---------------------------------------------------------------------------
(* Properties *)

Done(i, op) == calls[i].op = op /\ calls[i].pc = "done"

(* each conversion run on its own, from its input to its result *)
RunAlone(op, input) ==
  CASE op = "encode_request" -> EncodeRequest(input)
    [] op = "decode_request" -> DecodeRequest(input)
    [] op = "encode_response" -> EncodeResponse(input)
    [] op = "decode_response" -> DecodeResponse(input)
    [] op = "error_response" -> Ok(MatrixErrorIntoResponse(input))
    [] op = "decode_error" -> DeserializeMatrixError(input)

(* C1: decoding the wire request that the encoder made of a Request v
   succeeds and gives back v, room_id and room_alias. *)
RequestRoundTrip ==
  \A i \in Calls : \A v \in Requests :
    (Done(i, "decode_request") /\ EncodeRequest(v) = Ok(calls[i].input))
      => (calls[i].result.tag = "Ok" /\ calls[i].result.val = v)

(* C2: the encoded request has the method of METADATA, the metadata path
   with the placeholder replaced by the percent-encoded string form of
   room_alias, and the JSON body {"room_id": ..} and nothing else. *)
EncodedRequestShape ==
  \A i \in Calls :
    Done(i, "encode_request") =>
      /\ calls[i].result.tag = "Ok"
      /\ calls[i].result.val.method = METADATA.method
      /\ calls[i].result.val.path =
           Replace(METADATA.path, Placeholder,
                   PercentEncode(RoomAliasIdToString(calls[i].input.room_alias)))
      /\ calls[i].result.val.body =
           JsonBytes(JObj({<<"room_id", JStr(RoomIdToString(calls[i].input.room_id))>>}))

(* C3: a wire request with the body {"room_id": r} and the metadata path
   whose placeholder segment is the percent-encoded plain string form of an
   alias a decodes to Request{room_id: r, room_alias: a}. *)
WellFormedRequestDecodes ==
  \A i \in Calls : \A r \in RoomIds : \A a \in RoomAliasIds :
    ( /\ Done(i, "decode_request")
      /\ calls[i].input.body = SerializeRequestBody([room_id |-> r])
      /\ calls[i].input.path = PathPrefix \o PercentEncode(RoomAliasIdToString(a)) )
      => ( /\ calls[i].result.tag = "Ok"
           /\ calls[i].result.val = [room_id |-> r, room_alias |-> a] )

(* C4: with a valid body, decoding a request ends with a typed Request or
   with an error that carries the wire request, whatever the path is; it
   never ends with a panic. *)
DecodeRequestTotal ==
  \A i \in Calls :
    (Done(i, "decode_request") /\ calls[i].input.body \in WellFormedBodies)
      => /\ calls[i].result.tag \in {"Ok", "Err"}
         /\ calls[i].result.tag = "Err" => calls[i].result.err.http_request = calls[i].input

(* C5: decoding a request whose body is not a JSON object with a valid
   room_id gives the deserialization error made of the wire request as it
   came in, body bytes included, and no typed Request. *)
MalformedBodySafety ==
  \A i \in Calls :
    (Done(i, "decode_request") /\ calls[i].input.body \in MalformedBodies)
      => /\ calls[i].result.tag = "Err"
         /\ calls[i].result.err = RequestDeserializationError(calls[i].input)
         /\ calls[i].result.err.http_request.body = calls[i].input.body

(* a malformed body was decoded on a path too short to hold the alias *)
MalformedBodyDecoded ==
  \E i \in Calls :
    /\ Done(i, "decode_request")
    /\ calls[i].input.body = RawBytes("truncated")
    /\ calls[i].input.path = <<"/">>
    /\ calls[i].result.tag = "Err"

(* C6: decoding a response gives the typed Response exactly when the status
   is below 400; from 400 on it gives the Http error with the ServerError
   made of that response, whatever the body is. *)
StatusBranching ==
  \A i \in Calls :
    Done(i, "decode_response") =>
      /\ calls[i].result.tag = "Ok" <=> calls[i].input.status < 400
      /\ calls[i].input.status < 400 => calls[i].result.val = Response
      /\ calls[i].input.status >= 400 =>
           /\ calls[i].result.tag = "Err"
           /\ calls[i].result.err = FromHttpResponseErrorHttp(ServerErrorNew(calls[i].input))

(* a response with the status 400, the first failure status, was decoded *)
StatusBoundaryDecoded ==
  \E i \in Calls :
    /\ Done(i, "decode_response")
    /\ calls[i].input.status = 400
    /\ calls[i].input.body = ErrorBody(ErrCode("Forbidden"), <<"n","o">>)
    /\ calls[i].result.tag = "Err"

(* C7: on a failure status the ServerError carries the wire status and the
   body bytes; when the body is a structured error with a known code, it
   carries that kind, the message and the wire status, so that 403 with
   {"errcode":"M_FORBIDDEN","error":"no"} gives Forbidden, "no", 403; when
   the body is no structured error, status and bytes are still there. *)
ServerErrorContent ==
  \A i \in Calls :
    (Done(i, "decode_response") /\ calls[i].input.status >= 400) =>
      /\ calls[i].result.tag = "Err"
      /\ calls[i].result.err.error.status = calls[i].input.status
      /\ calls[i].result.err.error.body = calls[i].input.body
      /\ \A kind \in MatrixErrorKind : \A m \in Messages :
           calls[i].input.body = ErrorBody(ErrCode(kind), m) =>
             calls[i].result.err.error.cause =
               [kind |-> kind, status_code |-> calls[i].input.status, message |-> m]
      /\ ( /\ calls[i].input.status = 403
           /\ calls[i].input.body =
                ErrorBody(<<"M","_","F","O","R","B","I","D","D","E","N">>, <<"n","o">>) )
           => /\ calls[i].result.err.error.cause.kind = "Forbidden"
              /\ calls[i].result.err.error.cause.message = <<"n","o">>
              /\ calls[i].result.err.error.cause.status_code = 403
      /\ calls[i].input.body \in UnstructuredBodies =>
           calls[i].result.err.error.cause = None

(* the 403 M_FORBIDDEN response was decoded *)
ForbiddenDecoded ==
  \E i \in Calls :
    /\ Done(i, "decode_response")
    /\ calls[i].input.status = 403
    /\ calls[i].input.body = ErrorBody(ErrCode("Forbidden"), <<"n","o">>)
    /\ calls[i].result.tag = "Err"
    /\ calls[i].result.err.error.cause.kind = "Forbidden"

(* C8: a structured error body {errcode, error} decodes whatever the errcode
   is: a known code to its own variant, any other code to the Unrecognized
   variant, both with the message of the body. *)
AnyErrCodeDecodes ==
  \A i \in Calls : \A c \in KnownErrCodes \cup {FutureErrCode} : \A m \in Messages :
    (Done(i, "decode_error") /\ calls[i].input = ErrorBody(c, m)) =>
      /\ calls[i].result.tag = "Ok"
      /\ calls[i].result.val.message = m
      /\ calls[i].result.val.kind =
           IF c \in KnownErrCodes
           THEN CHOOSE kind \in MatrixErrorKind : ErrCode(kind) = c
           ELSE "Unrecognized"

(* C9: the response made of a MatrixError has the status of the error, the
   Content-Type application/json, and the JSON object with exactly the keys
   errcode (the wire code of the kind) and error (the message); the status
   is not in the body and the conversion does not fail. *)
MatrixErrorResponseShape ==
  \A i \in Calls :
    Done(i, "error_response") =>
      /\ calls[i].result.tag = "Ok"
      /\ calls[i].result.val.status = calls[i].input.status_code
      /\ <<"content-type", "application/json">> \in calls[i].result.val.headers
      /\ calls[i].result.val.body.t = "json"
      /\ calls[i].result.val.body.json.k = "obj"
      /\ {p[1] : p \in calls[i].result.val.body.json.m} = {"errcode", "error"}
      /\ Cardinality(calls[i].result.val.body.json.m) = 2
      /\ Get(calls[i].result.val.body.json.m, "errcode") = JStr(ErrCode(calls[i].input.kind))
      /\ Get(calls[i].result.val.body.json.m, "error") = JStr(calls[i].input.message)
      /\ calls[i].input.kind = "Forbidden" =>
           Get(calls[i].result.val.body.json.m, "errcode").s =
             <<"M","_","F","O","R","B","I","D","D","E","N">>

(* a MatrixError with a status other than the default was converted *)
MatrixErrorConverted ==
  \E i \in Calls :
    /\ Done(i, "error_response")
    /\ calls[i].input.kind = "LimitExceeded"
    /\ calls[i].input.status_code = 429
    /\ calls[i].result.tag = "Ok"

(* C10: with any number of calls in flight in any order, METADATA stays as
   it is, every finished call has the result the same call has when it runs
   alone, and no step changes the operation, the input or the finished
   result of a call. *)
CallsIndependent ==
  /\ [](/\ metadata = METADATA
        /\ \A i \in Calls :
             calls[i].pc = "done" => calls[i].result = RunAlone(calls[i].op, calls[i].input))
  /\ [][\A i \in Calls :
          (calls[i].pc # "idle" /\ calls'[i].pc # "idle") =>
            /\ calls'[i].op = calls[i].op
            /\ calls'[i].input = calls[i].input
            /\ calls[i].pc = "done" => calls'[i] = calls[i]]_vars

(* a decode-request call has finished with a typed Request while another
   one, with a different path, is between the split of its path and the
   decoding of its alias *)
CallsInterleaved ==
  \E i, j \in Calls :
    /\ i # j
    /\ Done(i, "decode_request")
    /\ calls[i].result.tag = "Ok"
    /\ At(j, "decode_request", "alias")
    /\ calls[j].input.path # calls[i].input.path

====
